---- MODULE Spec2Model ----
(***************************************************************************)
(* Model of retail_agent.py: the replenishment policy                      *)
(* (RetailDecisionAgent) and the backtesting loop (run_validation).        *)
(*                                                                         *)
(* Python floats are modelled as fixed-point numbers: the integer x stands *)
(* for the real x / Scale.  Every arithmetic operation rounds its result   *)
(* to that grid, as an IEEE operation rounds to the nearest representable  *)
(* value.  Python ints (day numbers, order quantities, counters) are plain *)
(* integers; Real(q) converts an int to the fixed-point grid where the     *)
(* code mixes the two (inventory += sum(arrivals)).                        *)
(***************************************************************************)
EXTENDS Integers, Sequences, FiniteSets, TLC

VARIABLES pc, agent, raised, call, ret, sim, twin

vars == <<pc, agent, raised, call, ret, sim, twin>>

(***************************************************************************)
(* Bounds of the model.                                                    *)
(***************************************************************************)
MaxReview == 1
MaxWindow == 2
MaxHist == 3
MaxLead == 2
MaxDays == 3
MaxPairDays == 2

(***************************************************************************)
(* Fixed-point arithmetic.                                                 *)
(***************************************************************************)
Scale == 100

Max(a, b) == IF a >= b THEN a ELSE b

Min(a, b) == IF a <= b THEN a ELSE b

Real(q) == q * Scale

\* a * b on the grid, rounded to nearest
Mul(a, b) == (a * b + Scale \div 2) \div Scale

\* a / n for an integer n # 0, rounded to nearest
DivInt(a, n) ==
  IF n > 0 THEN (2 * a + n) \div (2 * n)
           ELSE (-(2 * a) - n) \div (-(2 * n))

RECURSIVE SqrtSearch(_, _, _)
SqrtSearch(n, lo, hi) ==
  IF lo >= hi THEN lo
  ELSE LET mid == (lo + hi + 1) \div 2
       IN IF mid * mid <= n THEN SqrtSearch(n, mid, hi)
                            ELSE SqrtSearch(n, lo, mid - 1)

\* integer square root, rounded to nearest
ISqrt(n) ==
  LET r == SqrtSearch(n, 0, n)
  IN IF n - r * r > r THEN r + 1 ELSE r

\* math.sqrt on the grid: sqrt(x / Scale) * Scale = sqrt(x * Scale)
Sqrt(x) == ISqrt(x * Scale)

\* math.ceil: float -> int
Ceil(x) == -((-x) \div Scale)

RECURSIVE Sum(_)
Sum(s) == IF s = <<>> THEN 0 ELSE Head(s) + Sum(Tail(s))

RECURSIVE SumSq(_)
SumSq(s) == IF s = <<>> THEN 0 ELSE Head(s) * Head(s) + SumSq(Tail(s))

\* statistics.mean
Mean(s) == DivInt(Sum(s), Len(s))

\* statistics.pstdev: sqrt of the population variance
\* sum((x - mean)^2) / n = (n * sum(x^2) - sum(x)^2) / n^2
Pstdev(s) ==
  LET n == Len(s)
  IN ISqrt(DivInt(n * SumSq(s) - Sum(s) * Sum(s), n * n))

\* s[i:] of Python, for any integer i
SliceFrom(s, i) ==
  LET b == IF i < 0 THEN Max(0, Len(s) + i) ELSE Min(i, Len(s))
  IN SubSeq(s, b + 1, Len(s))

\* s[:i] of Python, for any integer i
SliceTo(s, i) ==
  LET e == IF i < 0 THEN Max(0, Len(s) + i) ELSE Min(i, Len(s))
  IN SubSeq(s, 1, e)

RECURSIVE SortedSeq(_)
SortedSeq(S) ==
  IF S = {} THEN <<>>
  ELSE LET m == CHOOSE x \in S : \A y \in S : x <= y
       IN <<m>> \o SortedSeq(S \ {m})

(***************************************************************************)
(* SERVICE_Z: service level -> z factor (both on the grid).                *)
(***************************************************************************)
SERVICE_Z ==
  (80 :> 84) @@ (85 :> 104) @@ (90 :> 128) @@
  (95 :> 165) @@ (97 :> 188) @@ (99 :> 233)

None == [kind |-> "None"]

\* Optional[List[float]]: an absent argument, or a list
Absent == [given |-> FALSE, list |-> <<>>]

Given(list) == [given |-> TRUE, list |-> list]

(***************************************************************************)
(* RetailDecisionAgent.__init__: the instance, or the exception raised.    *)
(***************************************************************************)
InitDefaulting(service_level, review_period_days, alpha, demand_window) ==
  LET near == CHOOSE k \in DOMAIN SERVICE_Z :
                \A j \in DOMAIN SERVICE_Z :
                   Max(k - service_level, service_level - k)
                     <= Max(j - service_level, service_level - j)
  IN [self |-> [service_level |-> near,
                review_period_days |-> review_period_days,
                alpha |-> alpha,
                demand_window |-> demand_window],
      raised |-> None]

AgentInit(service_level, review_period_days, alpha, demand_window) ==
  IF service_level \notin DOMAIN SERVICE_Z
  THEN [self |-> None,
        raised |-> [kind |-> "ValueError",
                    valid |-> SortedSeq(DOMAIN SERVICE_Z)]]
  ELSE [self |-> [service_level |-> service_level,
                  review_period_days |-> review_period_days,
                  alpha |-> alpha,
                  demand_window |-> demand_window],
        raised |-> None]

(***************************************************************************)
(* RetailDecisionAgent._exp_smoothing_forecast                             *)
(***************************************************************************)
RECURSIVE Smooth(_, _, _)
Smooth(alpha, level, rest) ==
  IF rest = <<>> THEN level
  ELSE Smooth(alpha, Mul(alpha, Head(rest)) + Mul(Scale - alpha, level),
              Tail(rest))

ExpSmoothingSeedLast(self, history) ==
  IF history = <<>> THEN 0
  ELSE Max(0, Smooth(self.alpha, history[Len(history)], Tail(history)))

ExpSmoothingForecast(self, history) ==
  IF history = <<>> THEN 0
  ELSE Max(0, Smooth(self.alpha, Head(history), Tail(history)))

(***************************************************************************)
(* RetailDecisionAgent._recent_std                                         *)
(***************************************************************************)
RecentStd(self, history) ==
  IF Len(history) < 2 THEN 0 ELSE Pstdev(history)

(***************************************************************************)
(* RetailDecisionAgent.recommend                                           *)
(***************************************************************************)
OrderQtyFloor(recommended) == recommended \div Scale

OrderQty(recommended) == Ceil(recommended)

Recommend(self, demand_history, inventory_on_hand, inventory_on_order, lead_time_history) ==
  LET recent == IF demand_history # <<>>
                THEN SliceFrom(demand_history, -self.demand_window)
                ELSE <<>>
      forecast_daily == ExpSmoothingForecast(self, recent)
      demand_std == RecentStd(self, recent)
      lead_hist == IF lead_time_history.given /\ lead_time_history.list # <<>>
                   THEN lead_time_history.list ELSE <<Real(7)>>
      lead_time == Max(Real(1), Mean(lead_hist))
      z == SERVICE_Z[self.service_level]
      safety_stock == Mul(Mul(z, demand_std), Sqrt(lead_time))
      reorder_point == Mul(forecast_daily, lead_time) + safety_stock
      protection_days == lead_time + Real(self.review_period_days)
      target_stock == Mul(forecast_daily, protection_days) + safety_stock
      net_stock == inventory_on_hand + inventory_on_order
      recommended == Max(0, target_stock - net_stock)
  IN [forecast_demand |-> forecast_daily,
      demand_std |-> demand_std,
      estimated_lead_time_days |-> lead_time,
      safety_stock |-> safety_stock,
      reorder_point |-> reorder_point,
      target_stock |-> target_stock,
      recommended_order_qty |-> OrderQty(recommended)]

(***************************************************************************)
(* Inputs of the policy specification.                                     *)
(***************************************************************************)
ServiceLevels == DOMAIN SERVICE_Z \cup {50, 93, 100}

Alphas == {0, 35, Scale}

DemandValues == {0, 150, 400}

RECURSIVE SeqsUpTo(_, _)
SeqsUpTo(S, n) ==
  IF n = 0 THEN {<<>>}
  ELSE LET shorter == SeqsUpTo(S, n - 1)
       IN shorter \cup {Append(s, x) : s \in {t \in shorter : Len(t) = n - 1},
                                        x \in S}

Idle == [pc |-> "idle"]

(***************************************************************************)
(* SpecPolicy: construct an agent, then call recommend on it.              *)
(***************************************************************************)
InitPolicy ==
  /\ pc = "new"
  /\ agent = None
  /\ raised = None
  /\ call = None
  /\ ret = None
  /\ sim = Idle
  /\ twin = Idle

Construct ==
  /\ pc = "new"
  /\ \E service_level \in ServiceLevels,
        review_period_days \in 0..MaxReview,
        alpha \in Alphas,
        demand_window \in 1..MaxWindow :
       LET r == AgentInit(service_level, review_period_days, alpha,
                          demand_window)
       IN /\ agent' = r.self
          /\ raised' = r.raised
          /\ call' = [fn |-> "__init__", service_level |-> service_level]
          /\ pc' = IF r.raised = None THEN "ready" ELSE "raised"
  /\ UNCHANGED <<ret, sim, twin>>

CallRecommend ==
  /\ pc = "ready"
  /\ \E demand_history \in SeqsUpTo(DemandValues, MaxHist),
        inventory_on_hand \in {0, 250, 1400},
        inventory_on_order \in {0, Real(3)},
        lead_time_history \in {Absent, Given(<<>>)}
                                \cup {Given(<<Real(l)>>) : l \in 0..MaxLead} :
       /\ call' = [fn |-> "recommend",
                   demand_history |-> demand_history,
                   inventory_on_hand |-> inventory_on_hand,
                   inventory_on_order |-> inventory_on_order,
                   lead_time_history |-> lead_time_history]
       /\ ret' = Recommend(agent, demand_history, inventory_on_hand,
                           inventory_on_order, lead_time_history)
  /\ pc' = "returned"
  /\ UNCHANGED <<agent, raised, sim, twin>>

NextPolicy == Construct \/ CallRecommend

SpecPolicy == InitPolicy /\ [][NextPolicy]_vars

(***************************************************************************)
(* run_validation: the frame of one call.  The fields arrived_qty,         *)
(* placed_qty and simulated are history fields: the units moved from the   *)
(* pipeline into inventory, the units ordered and the number of loop       *)
(* iterations completed.                                                   *)
(***************************************************************************)
Start(n) == Max(30, Min(45, n \div 3))

RunValidation(demand, initial_inventory, lead_time_days) ==
  [demand |-> demand,
   initial_inventory |-> initial_inventory,
   lead_time_days |-> lead_time_days,
   inventory |-> initial_inventory,
   pipeline |-> <<>>,
   stockout_days |-> 0,
   total_shortage |-> 0,
   total_holding |-> 0,
   placed_orders |-> 0,
   start |-> Start(Len(demand)),
   day |-> Start(Len(demand)),
   on_order |-> 0,
   decision |-> None,
   result |-> None,
   arrived_qty |-> 0,
   placed_qty |-> 0,
   simulated |-> 0,
   pc |-> IF Start(Len(demand)) < Len(demand) THEN "arrivals" ELSE "return"]

RECURSIVE SumQty(_)
SumQty(pipeline) ==
  IF pipeline = <<>> THEN 0
  ELSE Head(pipeline).qty + SumQty(Tail(pipeline))

\* [q for arrival, q in pipeline if arrival == day]
Arriving(pipeline, day) ==
  SelectSeq(pipeline, LAMBDA e : e.arrival = day)

RemainingKeepAll(pipeline, day) == pipeline

\* [(arrival, q) for arrival, q in pipeline if arrival != day]
Remaining(pipeline, day) ==
  SelectSeq(pipeline, LAMBDA e : e.arrival # day)

ArrivalsStep(r) ==
  LET arrivals == Arriving(r.pipeline, r.day)
  IN [r EXCEPT !.inventory = IF arrivals # <<>>
                             THEN @ + Real(SumQty(arrivals)) ELSE @,
               !.arrived_qty = @ + SumQty(arrivals),
               !.pipeline = Remaining(r.pipeline, r.day),
               !.pc = "decide"]

HistoryLookahead(demand, day) == SliceTo(demand, day + 1)

\* demand[:day]
History(demand, day) == SliceTo(demand, day)

DecideStep(r, self) ==
  LET on_order == Real(SumQty(r.pipeline))
  IN [r EXCEPT !.on_order = on_order,
               !.decision = Recommend(self, History(r.demand, r.day),
                                      r.inventory, on_order,
                                      Given(<<Real(r.lead_time_days)>>)),
               !.pc = "reorder"]

ShouldOrderIfNoneOpen(r) ==
  /\ r.pipeline = <<>>
  /\ r.inventory + r.on_order <= r.decision.reorder_point
  /\ r.decision.recommended_order_qty > 0

ShouldOrder(r) ==
  /\ r.inventory + r.on_order <= r.decision.reorder_point
  /\ r.decision.recommended_order_qty > 0

ReorderStep(r) ==
  IF ShouldOrder(r)
  THEN LET qty == r.decision.recommended_order_qty
       IN [r EXCEPT !.pipeline = Append(@, [arrival |-> r.day + r.lead_time_days,
                                             qty |-> qty]),
                    !.placed_orders = @ + 1,
                    !.placed_qty = @ + qty,
                    !.pc = "demand"]
  ELSE [r EXCEPT !.pc = "demand"]

RealizeBackorder(inventory, today_demand) ==
  [inventory |-> inventory - today_demand,
   shortage |-> IF inventory >= today_demand THEN 0
                ELSE today_demand - inventory,
   stockout |-> IF inventory >= today_demand THEN 0 ELSE 1]

\* the demand realization of one day: lost sales, no backorder
Realize(inventory, today_demand) ==
  IF inventory >= today_demand
  THEN [inventory |-> inventory - today_demand, shortage |-> 0, stockout |-> 0]
  ELSE [inventory |-> 0, shortage |-> today_demand - inventory, stockout |-> 1]

DemandStep(r) ==
  LET today_demand == r.demand[r.day + 1]
      out == Realize(r.inventory, today_demand)
  IN [r EXCEPT !.inventory = out.inventory,
               !.total_shortage = @ + out.shortage,
               !.stockout_days = @ + out.stockout,
               !.total_holding = @ + out.inventory,
               !.simulated = @ + 1,
               !.day = @ + 1,
               !.pc = IF r.day + 1 < Len(r.demand) THEN "arrivals"
                                                   ELSE "return"]

ReturnStep(r) ==
  LET periods == Len(r.demand) - r.start
  IN [r EXCEPT !.result =
         [periods |-> periods,
          stockout_rate |-> IF periods # 0
                            THEN DivInt(Real(r.stockout_days), periods) ELSE 0,
          avg_ending_inventory |-> IF periods # 0
                                   THEN DivInt(r.total_holding, periods) ELSE 0,
          total_shortage_units |-> r.total_shortage,
          orders_placed |-> r.placed_orders],
               !.pc = "done"]

(***************************************************************************)
(* Inputs of the simulation: a demand series is a constant warm-up         *)
(* up to the day before the last warm-up day, followed by freely chosen    *)
(* observations for that day and for every simulated day.                  *)
(***************************************************************************)
RECURSIVE SeqsOfLen(_, _)
SeqsOfLen(S, n) ==
  IF n = 0 THEN {<<>>}
  ELSE {Append(s, x) : s \in SeqsOfLen(S, n - 1), x \in S}

FreeFrom(n) == Min(n, Start(n) - 1)

DemandSeries(n) ==
  {[i \in 1..FreeFrom(n) |-> base] \o tail :
     base \in DemandValues, tail \in SeqsOfLen(DemandValues, n - FreeFrom(n))}

SeriesLengths == {10, 29} \cup (30..(30 + MaxDays))

SimAgents ==
  {AgentInit(service_level, review_period_days, 35, MaxWindow).self :
     service_level \in {80, 95}, review_period_days \in 0..MaxReview}

InitialInventories == {0, 350, 700}

LeadTimes == (-1)..MaxLead

(***************************************************************************)
(* Spec: one run of run_validation.                                        *)
(***************************************************************************)
Init ==
  /\ pc = "validate"
  /\ agent \in SimAgents
  /\ raised = None
  /\ call = None
  /\ ret = None
  /\ \E n \in SeriesLengths :
       \E demand \in DemandSeries(n) :
         \E initial_inventory \in InitialInventories :
           \E lead_time_days \in LeadTimes :
             sim = RunValidation(demand, initial_inventory, lead_time_days)
  /\ twin = Idle

Arrivals ==
  /\ sim.pc = "arrivals"
  /\ sim' = ArrivalsStep(sim)
  /\ UNCHANGED <<pc, agent, raised, call, ret, twin>>

Decide ==
  /\ sim.pc = "decide"
  /\ sim' = DecideStep(sim, agent)
  /\ UNCHANGED <<pc, agent, raised, call, ret, twin>>

Reorder ==
  /\ sim.pc = "reorder"
  /\ sim' = ReorderStep(sim)
  /\ UNCHANGED <<pc, agent, raised, call, ret, twin>>

Demand ==
  /\ sim.pc = "demand"
  /\ sim' = DemandStep(sim)
  /\ UNCHANGED <<pc, agent, raised, call, ret, twin>>

Return ==
  /\ sim.pc = "return"
  /\ sim' = ReturnStep(sim)
  /\ UNCHANGED <<pc, agent, raised, call, ret, twin>>

Next == Arrivals \/ Decide \/ Reorder \/ Demand \/ Return

Spec == Init /\ [][Next]_vars

(***************************************************************************)
(* Properties of run_validation (checked under Spec).                      *)
(***************************************************************************)
Entries(pipeline) == {pipeline[i] : i \in DOMAIN pipeline}

Running == sim.pc \in {"arrivals", "decide", "reorder", "demand"}

\* the demand of the days simulated so far
DemandSoFar == Sum(SubSeq(sim.demand, sim.start + 1, sim.day))

\* C1: an order appended on day d with lead time L is added to inventory
\* exactly once, in the arrivals step of day d + L and in no other step, and
\* from then on it is not in the pipeline: no entry that is due or overdue
\* is still counted in on_order at a decision step.
C1_ArrivesExactlyOnDueDay ==
  [][/\ sim.pc = "reorder" =>
          \A e \in Entries(sim'.pipeline) \ Entries(sim.pipeline) :
             e.arrival = sim.day + sim.lead_time_days
     /\ sim.pc = "arrivals" =>
          LET due == {e \in Entries(sim.pipeline) : e.arrival = sim.day}
          IN /\ sim'.inventory
                  = sim.inventory + Real(SumQty(Arriving(sim.pipeline, sim.day)))
             /\ Entries(sim'.pipeline) = Entries(sim.pipeline) \ due
     /\ (Running /\ sim.pc # "arrivals") =>
          /\ Entries(sim.pipeline) \subseteq Entries(sim'.pipeline)
          /\ sim'.inventory <= sim.inventory
     /\ sim'.pc = "decide" =>
          \A e \in Entries(sim'.pipeline) : e.arrival > sim'.day]_vars

\* C2: the returned periods is the number of days the loop simulated; when no
\* day was simulated it is 0 and both rates are 0.
C2_PeriodsIsDaysSimulated ==
  sim.pc = "done" =>
    /\ sim.result.periods = sim.simulated
    /\ sim.simulated = 0 =>
         /\ sim.result.periods = 0
         /\ sim.result.stockout_rate = 0
         /\ sim.result.avg_ending_inventory = 0

\* C3: stockout_days and placed_orders grow by at most 1 per simulated day
\* (stockout_days only in the demand step, placed_orders only in the reorder
\* step), and the returned metrics satisfy 0 <= stockout_rate <= 1 and
\* 0 <= orders_placed <= periods.
C3_CountersBoundedByPeriods ==
  [][/\ sim'.stockout_days - sim.stockout_days
          \in (IF sim.pc = "demand" THEN {0, 1} ELSE {0})
     /\ sim'.placed_orders - sim.placed_orders
          \in (IF sim.pc = "reorder" THEN {0, 1} ELSE {0})
     /\ sim'.pc = "done" =>
          /\ 0 <= sim'.result.stockout_rate
          /\ sim'.result.stockout_rate <= Real(1)
          /\ sim'.result.orders_placed \in Nat
          /\ sim'.result.orders_placed <= sim'.result.periods]_vars

\* C7: lost sales.  Inventory is never negative; on a day whose demand exceeds
\* the inventory, inventory becomes 0, stockout_days grows by 1 and
\* total_shortage by demand - inventory; on any other day inventory drops by
\* the demand and stockout_days and total_shortage are unchanged.
C7_LostSalesNoBackorder ==
  [][Running =>
       /\ sim'.inventory >= 0
       /\ sim.pc = "demand" =>
            LET today_demand == sim.demand[sim.day + 1]
            IN IF sim.inventory < today_demand
               THEN /\ sim'.inventory = 0
                    /\ sim'.stockout_days = sim.stockout_days + 1
                    /\ sim'.total_shortage
                         = sim.total_shortage + (today_demand - sim.inventory)
               ELSE /\ sim'.inventory = sim.inventory - today_demand
                    /\ sim'.stockout_days = sim.stockout_days
                    /\ sim'.total_shortage = sim.total_shortage]_vars

\* a day ended on which part of the demand was served and part of it lost
C7_Witness ==
  /\ sim.pc = "arrivals"
  /\ sim.stockout_days >= 1
  /\ sim.total_shortage > 0
  /\ sim.total_shortage < DemandSoFar
  /\ sim.inventory = 0

\* C9: the reorder step appends exactly one entry (day + lead_time_days,
\* recommended_order_qty) and increments placed_orders exactly when
\* inventory + on_order <= reorder_point and recommended_order_qty > 0, with
\* on_order the sum of the pipeline, whatever is already in transit; it
\* changes neither otherwise, and no other step appends or counts an order.
C9_ReorderTrigger ==
  [][Running =>
       IF sim.pc = "reorder"
       THEN IF /\ sim.inventory + Real(SumQty(sim.pipeline))
                    <= sim.decision.reorder_point
               /\ sim.decision.recommended_order_qty > 0
            THEN /\ sim'.pipeline
                      = Append(sim.pipeline,
                               [arrival |-> sim.day + sim.lead_time_days,
                                qty |-> sim.decision.recommended_order_qty])
                 /\ sim'.placed_orders = sim.placed_orders + 1
            ELSE /\ sim'.pipeline = sim.pipeline
                 /\ sim'.placed_orders = sim.placed_orders
       ELSE /\ sim'.placed_orders = sim.placed_orders
            /\ Len(sim'.pipeline) <= Len(sim.pipeline)]_vars

\* an order was just placed while another, not yet due, was in transit
C9_Witness ==
  /\ sim.pc = "demand"
  /\ sim.lead_time_days >= 1
  /\ Len(sim.pipeline) >= 2
  /\ \A e \in Entries(sim.pipeline) : e.arrival > sim.day
  /\ sim.pipeline[Len(sim.pipeline)].arrival = sim.day + sim.lead_time_days

\* C10: stock-flow balance.  At the end of every simulated day
\* inventory = initial_inventory + arrived - demand so far + total_shortage,
\* and always ordered = arrived + in the pipeline.
C10_StockFlowBalance ==
  /\ (sim.pc \in {"arrivals", "return", "done"} /\ sim.simulated >= 1) =>
        sim.inventory = sim.initial_inventory + Real(sim.arrived_qty)
                          - DemandSoFar + sim.total_shortage
  /\ sim.placed_qty = sim.arrived_qty + SumQty(sim.pipeline)

\* a day ended with units arrived, units in transit and demand lost
C10_Witness ==
  /\ sim.pc = "arrivals"
  /\ sim.simulated >= 1
  /\ sim.arrived_qty > 0
  /\ sim.pipeline # <<>>
  /\ sim.total_shortage > 0

(***************************************************************************)
(* Properties of the policy (checked under SpecPolicy).                    *)
(***************************************************************************)
\* C4: recommended_order_qty is a non-negative integer, the smallest integer
\* >= max(0, target_stock - (on_hand + on_order)): 0 whenever
\* net_stock >= target_stock, and otherwise net_stock + qty >= target_stock.
C4_OrderQtyRoundsUp ==
  pc = "returned" =>
    LET net_stock == call.inventory_on_hand + call.inventory_on_order
        need == Max(0, ret.target_stock - net_stock)
        qty == ret.recommended_order_qty
    IN /\ qty \in Nat
       /\ Real(qty) >= need
       /\ qty > 0 => Real(qty - 1) < need
       /\ net_stock >= ret.target_stock => qty = 0
       /\ net_stock < ret.target_stock => net_stock + Real(qty) >= ret.target_stock

\* recommend returned with a fractional positive gap target_stock - net_stock
C4_Witness ==
  /\ pc = "returned"
  /\ ret.target_stock > call.inventory_on_hand + call.inventory_on_order
  /\ (ret.target_stock - call.inventory_on_hand
        - call.inventory_on_order) % Scale # 0
  /\ call.inventory_on_order > 0

\* C5: constructing with a service_level outside {0.80, 0.85, 0.90, 0.95,
\* 0.97, 0.99} raises an error that lists exactly that set and yields no
\* instance; constructing with one of them yields an instance holding that
\* very level.
C5_UnsupportedServiceLevelRaises ==
  (pc \in {"ready", "raised"}) =>
    IF call.service_level \in {80, 85, 90, 95, 97, 99}
    THEN /\ pc = "ready"
         /\ raised = None
         /\ agent.service_level = call.service_level
    ELSE /\ pc = "raised"
         /\ agent = None
         /\ raised.kind = "ValueError"
         /\ {raised.valid[i] : i \in DOMAIN raised.valid}
              = {80, 85, 90, 95, 97, 99}

\* the constructor was called with service_level 0.93 and raised
C5_Witness ==
  /\ pc = "raised"
  /\ call.service_level = 93
  /\ raised # None

\* C6: for a non-empty history and a window size >= 1, with the window the
\* last min(window size, length) observations: alpha = 0 makes the forecast
\* the first observation of the window, alpha = 1 the most recent one.
C6_AlphaExtremes ==
  (pc = "returned" /\ call.demand_history # <<>> /\ agent.demand_window >= 1) =>
    LET history == call.demand_history
        first == Len(history) - Min(agent.demand_window, Len(history)) + 1
    IN /\ agent.alpha = 0 => ret.forecast_demand = history[first]
       /\ agent.alpha = Scale => ret.forecast_demand = history[Len(history)]

\* alpha = 0, a history longer than the window, and the first observation of
\* the window differs from the one before it and from the last one
C6_Witness ==
  /\ pc = "returned"
  /\ agent.alpha = 0
  /\ agent.demand_window = 2
  /\ Len(call.demand_history) = 3
  /\ call.demand_history[2] # call.demand_history[1]
  /\ call.demand_history[2] # call.demand_history[3]
  /\ ret.forecast_demand = call.demand_history[2]

(***************************************************************************)
(* SpecPair: two runs of run_validation with the same policy, initial      *)
(* inventory, lead time and series length, stepped side by side.  The two  *)
(* demand series share the warm-up and are chosen independently from the   *)
(* start day on.                                                           *)
(***************************************************************************)
PairLengths == 31..(30 + MaxPairDays)

PairAgents ==
  {AgentInit(95, review_period_days, 35, 2).self :
     review_period_days \in {0, 1}}

InitPair ==
  /\ pc = "validate"
  /\ agent \in PairAgents
  /\ raised = None
  /\ call = None
  /\ ret = None
  /\ \E n \in PairLengths :
       \E demand \in DemandSeries(n), other \in DemandSeries(n) :
         \E initial_inventory \in {0, 350} :
           \E lead_time_days \in {1, 2} :
             /\ SliceTo(demand, Start(n)) = SliceTo(other, Start(n))
             /\ sim = RunValidation(demand, initial_inventory, lead_time_days)
             /\ twin = RunValidation(other, initial_inventory, lead_time_days)

PairArrivals ==
  /\ sim.pc = "arrivals"
  /\ sim' = ArrivalsStep(sim)
  /\ twin' = ArrivalsStep(twin)
  /\ UNCHANGED <<pc, agent, raised, call, ret>>

PairDecide ==
  /\ sim.pc = "decide"
  /\ sim' = DecideStep(sim, agent)
  /\ twin' = DecideStep(twin, agent)
  /\ UNCHANGED <<pc, agent, raised, call, ret>>

PairReorder ==
  /\ sim.pc = "reorder"
  /\ sim' = ReorderStep(sim)
  /\ twin' = ReorderStep(twin)
  /\ UNCHANGED <<pc, agent, raised, call, ret>>

PairDemand ==
  /\ sim.pc = "demand"
  /\ sim' = DemandStep(sim)
  /\ twin' = DemandStep(twin)
  /\ UNCHANGED <<pc, agent, raised, call, ret>>

PairReturn ==
  /\ sim.pc = "return"
  /\ sim' = ReturnStep(sim)
  /\ twin' = ReturnStep(twin)
  /\ UNCHANGED <<pc, agent, raised, call, ret>>

NextPair ==
  PairArrivals \/ PairDecide \/ PairReorder \/ PairDemand \/ PairReturn

SpecPair == InitPair /\ [][NextPair]_vars

\* C8: the decision and the order of day d do not depend on the demand of
\* day d or later: when the two series agree on days 0..d-1, then after the
\* decision step and after the reorder step of day d the two runs have the
\* same inventory, pipeline, on_order and decision.
C8_NoLookahead ==
  (/\ sim.pc \in {"reorder", "demand"}
   /\ SliceTo(sim.demand, sim.day) = SliceTo(twin.demand, sim.day)) =>
    /\ twin.day = sim.day
    /\ twin.inventory = sim.inventory
    /\ twin.pipeline = sim.pipeline
    /\ twin.on_order = sim.on_order
    /\ sim.pc = "reorder" =>
         sim.on_order = Real(SumQty(Remaining(sim.pipeline, sim.day)))
    /\ twin.decision = sim.decision

\* past the first day, the series agree so far and differ today, and both
\* runs have just placed the same order
C8_Witness ==
  /\ sim.pc = "demand"
  /\ sim.day > sim.start
  /\ SliceTo(sim.demand, sim.day) = SliceTo(twin.demand, sim.day)
  /\ sim.demand[sim.day + 1] # twin.demand[sim.day + 1]
  /\ sim.pipeline # <<>>
  /\ sim.pipeline[Len(sim.pipeline)].arrival = sim.day + sim.lead_time_days
  /\ twin.pipeline = sim.pipeline

====
